---- MODULE Spec2Model ----
(***************************************************************************)
(* ronfire: a static-file HTTP server over a Unix domain socket.           *)
(*                                                                         *)
(* Two programs are modelled:                                              *)
(*   - the library pipeline of src/src/lib.rs (parse_request with the      *)
(*     path-traversal check, resolve_static_path, generate_response),      *)
(*     under the specification LibSpec;                                    *)
(*   - the server binary of src/src/main.rs (accept loop, one task per     *)
(*     connection, its own parse_request and generate_response), under     *)
(*     the specification Spec.                                             *)
(* BuilderSpec applies the generate_response of each to arbitrary paths.   *)
(* A request is read in one piece: requests longer than the 1024-byte      *)
(* read buffer are outside the model.                                      *)
(*                                                                         *)
(* Text is modelled as sequences of one-character strings; a byte that is  *)
(* not ASCII is written "xHH".                                              *)
(***************************************************************************)
EXTENDS Integers, Sequences, FiniteSets, TLC

VARIABLES
    fs,        \* the filesystem: node -> "none" | "file" | "dir"
    data,      \* the bytes every regular file holds
    lreq,      \* lib.rs pipeline: the request given to parse_request
    lpc,       \* lib.rs pipeline: "request" | "rejected" | "parsed" | "built"
    lpath,     \* lib.rs pipeline: what parse_request returned
    lchecked,  \* lib.rs pipeline: the candidates whose existence was examined
    lresp,     \* lib.rs pipeline: what generate_response returned
    mresp,     \* main.rs generate_response applied to the same path
    conns,     \* main.rs: the state of each connection's task
    llog,      \* lib.rs pipeline: what was printed with eprintln
    lsent,     \* lib.rs send_response: the writes attempted, in order
    lmime,     \* lib.rs guess_mime_type: what it returned
    mparse     \* main.rs parse_request applied to the same request

vars == <<fs, data, lreq, lpc, lpath, lchecked, lresp, mresp, conns,
          llog, lsent, lmime, mparse>>

(***************************************************************************)
(* Bounds                                                                  *)
(***************************************************************************)
\* longest request target the clients send (characters)
MaxLen == 4

(***************************************************************************)
(* Text helpers                                                            *)
(***************************************************************************)
None == <<"None">>
Some(x) == <<"Some", x>>
IsSome(o) == o[1] = "Some"
Unwrap(o) == o[2]

\* the characters request targets are made of
Alphabet == {"/", ".", "a"}

RECURSIVE StringsUpTo(_)
StringsUpTo(n) ==
    IF n = 0 THEN {<<>>}
    ELSE LET shorter == StringsUpTo(n - 1)
         IN  shorter \cup {Append(s, c) : s \in {t \in shorter : Len(t) = n - 1}, c \in Alphabet}

Static == <<"s", "t", "a", "t", "i", "c">>
IndexHtml == <<"i", "n", "d", "e", "x", ".", "h", "t", "m", "l">>
DotHtml == <<".", "h", "t", "m", "l">>
DotDot == <<".", ".">>
Dot == <<".">>

\* str::ends_with(c) / str::starts_with(c)
EndsWith(s, c) == Len(s) > 0 /\ s[Len(s)] = c
StartsWith(s, c) == Len(s) > 0 /\ s[1] = c

\* a variant that removes one leading c only (str::strip_prefix)
TrimStartOne(s, c) == IF StartsWith(s, c) THEN Tail(s) ELSE s

\* str::trim_start_matches(c): every leading c is removed
RECURSIVE TrimStartMatches(_, _)
TrimStartMatches(s, c) ==
    IF StartsWith(s, c) THEN TrimStartMatches(Tail(s), c) ELSE s

\* str::split(c): the pieces between the separators, empty pieces kept
RECURSIVE SplitAcc(_, _, _)
SplitAcc(s, c, cur) ==
    IF s = <<>> THEN <<cur>>
    ELSE IF Head(s) = c THEN <<cur>> \o SplitAcc(Tail(s), c, <<>>)
    ELSE SplitAcc(Tail(s), c, Append(cur, Head(s)))

Split(s, c) == SplitAcc(s, c, <<>>)

\* index of the last occurrence of c in s, 0 when there is none
LastIndexOf(s, c) ==
    LET hits == {i \in 1..Len(s) : s[i] = c}
    IN  IF hits = {} THEN 0 ELSE CHOOSE i \in hits : \A j \in hits : j <= i

(***************************************************************************)
(* std::path: PathBuf::join and Path::extension                            *)
(***************************************************************************)
\* PathBuf::join: an absolute argument replaces the base; otherwise a
\* separator is added unless the base already ends with one
Join(base, path) ==
    IF StartsWith(path, "/") THEN path
    ELSE IF base = <<>> THEN path
    ELSE IF EndsWith(base, "/") THEN base \o path
    ELSE base \o <<"/">> \o path

\* Path::file_name: the last component when it is a normal one. Empty
\* pieces and "." pieces are no components, except a leading "." of a
\* relative path; a last component ".", ".." or the root has no file name.
FileName(path) ==
    LET pieces == Split(path, "/")
        kept == {i \in 1..Len(pieces) :
                    /\ pieces[i] # <<>>
                    /\ (pieces[i] = Dot => (i = 1 /\ ~StartsWith(path, "/")))}
        last == CHOOSE i \in kept : \A j \in kept : j <= i
    IN  IF kept = {} THEN None
        ELSE IF pieces[last] = Dot \/ pieces[last] = DotDot THEN None
        ELSE Some(pieces[last])

\* Path::extension: what follows the last '.' of the file name; none when
\* the name has no '.' or its only '.' is the first character
Extension(path) ==
    LET fname == FileName(path)
    IN  IF ~IsSome(fname) THEN None
        ELSE LET name == Unwrap(fname)
                 i == LastIndexOf(name, ".")
             IN  IF i <= 1 THEN None
                 ELSE Some(SubSeq(name, i + 1, Len(name)))

(***************************************************************************)
(* The filesystem below the working directory. A node is the sequence of   *)
(* names leading to it from the working directory; fs maps the nodes of    *)
(* NodeNames to "none", "file" or "dir", every other name does not exist.  *)
(* Every regular file holds the bytes of data.                             *)
(***************************************************************************)
NameA == <<"a">>
NameADotA == <<"a", ".", "a">>
NameAHtml == <<"a", ".", "h", "t", "m", "l">>

NodeIndex == <<Static, IndexHtml>>
NodeA == <<Static, NameA>>
NodeAIndex == <<Static, NameA, IndexHtml>>
NodeAHtml == <<Static, NameAHtml>>
NodeADotA == <<Static, NameADotA>>
NodeADotAIndex == <<Static, NameADotA, IndexHtml>>
NodeOutside == <<NameA>>

NodeNames == {<<Static>>, NodeIndex, NodeA, NodeAIndex, NodeAHtml, NodeADotA,
              NodeADotAIndex, NodeOutside}

\* the position above the working directory: a directory in which no name
\* the clients can spell exists, and whose parent is itself
Above == <<<<"^">>>>

Parent(pos) ==
    IF pos = Above \/ pos = <<>> THEN Above ELSE SubSeq(pos, 1, Len(pos) - 1)

KindOf(f, pos) ==
    IF pos = Above \/ pos = <<>> THEN "dir"
    ELSE IF pos \in DOMAIN f THEN f[pos]
    ELSE "none"

FileSystems ==
    {f \in [NodeNames -> {"none", "file", "dir"}] :
        /\ f[<<Static>>] = "dir"
        /\ f[NodeIndex] # "dir"
        /\ f[NodeAHtml] # "dir"
        /\ f[NodeOutside] = "file"
        /\ f[NodeAIndex] # "dir"
        /\ f[NodeADotAIndex] # "dir"
        /\ (f[NodeAIndex] = "file" => f[NodeA] = "dir")
        /\ (f[NodeADotAIndex] = "file" => f[NodeADotA] = "dir")}

\* main.rs opens static/<target> and nothing else: the nodes no target over
\* Alphabet can name are left out of the file systems the server runs on
ServerFileSystems ==
    {f \in FileSystems :
        f[NodeAHtml] = "none" /\ f[NodeAIndex] = "none" /\ f[NodeADotAIndex] = "none"}

\* path resolution of the operating system: every piece that a '/' follows
\* must be a directory; "" and "." stay, ".." goes to the parent.
\* The result is the node reached, or NoEnt.
NoEnt == <<<<"ENOENT">>>>

RECURSIVE Walk(_, _, _)
Walk(f, pos, pieces) ==
    IF KindOf(f, pos) # "dir" THEN NoEnt
    ELSE LET p == Head(pieces)
             next == IF p = <<>> \/ p = Dot THEN pos
                     ELSE IF p = DotDot THEN Parent(pos)
                     ELSE IF pos = Above THEN NoEnt
                     ELSE Append(pos, p)
         IN  IF next = NoEnt \/ KindOf(f, next) = "none" THEN NoEnt
             ELSE IF Len(pieces) = 1 THEN next
             ELSE Walk(f, next, Tail(pieces))

\* the node a path leads to, or NoEnt
NodeOf(f, path) ==
    IF path = <<>> THEN NoEnt
    ELSE Walk(f, IF StartsWith(path, "/") THEN Above ELSE <<>>, Split(path, "/"))

\* stat(2) of a path: "none", "file" or "dir". A regular file without read
\* permission ("locked", which only another actor's chmod produces) is a
\* regular file to stat.
Stat(f, path) ==
    LET node == NodeOf(f, path)
    IN  IF node = NoEnt THEN "none"
        ELSE IF KindOf(f, node) = "locked" THEN "file"
        ELSE KindOf(f, node)

\* Path::exists and Path::is_file
Exists(f, path) == Stat(f, path) # "none"
IsFile(f, path) == Stat(f, path) = "file"

\* fs::read: the bytes of a regular file, an error for anything else
ReadOk(f, path) == NodeOf(f, path) # NoEnt /\ KindOf(f, NodeOf(f, path)) = "file"

(***************************************************************************)
(* Requests. A request is the sequence of its lines (str::lines), a line   *)
(* the sequence of its whitespace-separated tokens (split_whitespace).     *)
(***************************************************************************)
Get == <<"G", "E", "T">>
Post == <<"P", "O", "S", "T">>
Http11 == <<"H", "T", "T", "P", "/", "1", ".", "1">>
Http10 == <<"H", "T", "T", "P", "/", "1", ".", "0">>
Http2 == <<"H", "T", "T", "P", "/", "2">>
ConnectionHdr == <<"C", "o", "n", "n", "e", "c", "t", "i", "o", "n", ":">>
Close == <<"c", "l", "o", "s", "e">>

\* Iterator::next().unwrap_or(default) on the i-th token
TokenOr(parts, i, default) == IF Len(parts) >= i THEN parts[i] ELSE default

(***************************************************************************)
(* lib.rs: resolve_static_path                                             *)
(***************************************************************************)
\* a variant that tries <path>/index.html before <path>.html
CandidatesIndexFirst(path) ==
    IF path = <<>> THEN <<Join(Static, IndexHtml)>>
    ELSE IF EndsWith(path, "/") THEN <<Join(Join(Static, path), IndexHtml)>>
    ELSE IF ~IsSome(Extension(path))
         THEN <<Join(Join(Static, path), IndexHtml), Join(Static, path \o DotHtml)>>
    ELSE <<Join(Static, path)>>

\* a variant that looks at the extension before the trailing slash
CandidatesExtensionFirst(path) ==
    IF path = <<>> THEN <<Join(Static, IndexHtml)>>
    ELSE IF IsSome(Extension(path)) THEN <<Join(Static, path)>>
    ELSE IF EndsWith(path, "/") THEN <<Join(Join(Static, path), IndexHtml)>>
    ELSE <<Join(Static, path \o DotHtml), Join(Join(Static, path), IndexHtml)>>

\* the candidates of the rule the shape of the path selects
Candidates(path) ==
    IF path = <<>> THEN <<Join(Static, IndexHtml)>>
    ELSE IF EndsWith(path, "/") THEN <<Join(Join(Static, path), IndexHtml)>>
    ELSE IF ~IsSome(Extension(path))
         THEN <<Join(Static, path \o DotHtml), Join(Join(Static, path), IndexHtml)>>
    ELSE <<Join(Static, path)>>

\* a variant whose loop tests exists() alone
ResolveStaticPathExistsOnly(path, f) ==
    LET cands == Candidates(path)
        hits == {i \in 1..Len(cands) : Exists(f, cands[i])}
        first == CHOOSE i \in hits : \A j \in hits : i <= j
    IN  IF hits = {} THEN [result |-> None, checked |-> cands]
        ELSE [result |-> Some(cands[first]), checked |-> SubSeq(cands, 1, first)]

\* the for loop: the first candidate that exists and is a regular file.
\* checked is the sequence of candidates whose existence was examined.
ResolveStaticPath(path, f) ==
    LET cands == Candidates(path)
        hits == {i \in 1..Len(cands) : Exists(f, cands[i]) /\ IsFile(f, cands[i])}
        first == CHOOSE i \in hits : \A j \in hits : i <= j
    IN  IF hits = {} THEN [result |-> None, checked |-> cands]
        ELSE [result |-> Some(cands[first]), checked |-> SubSeq(cands, 1, first)]

(***************************************************************************)
(* lib.rs: parse_request                                                   *)
(***************************************************************************)
HasTraversal(path) ==
    LET parts == Split(path, "/") IN \E i \in 1..Len(parts) : parts[i] = DotDot

\* a variant without the path-traversal check
ParseRequestNoTraversalCheck(request, f) ==
    IF request = <<>> THEN [result |-> None, checked |-> <<>>]
    ELSE LET parts == request[1]
             method == TokenOr(parts, 1, <<>>)
             target == TokenOr(parts, 2, <<"/">>)
             version == TokenOr(parts, 3, <<>>)
         IN  IF version # Http11 /\ version # Http10
                 THEN [result |-> None, checked |-> <<>>]
             ELSE IF method = Get
                 THEN ResolveStaticPath(TrimStartMatches(target, "/"), f)
             ELSE [result |-> None, checked |-> <<>>]

ParseRequest(request, f) ==
    IF request = <<>> THEN [result |-> None, checked |-> <<>>]
    ELSE LET parts == request[1]
             method == TokenOr(parts, 1, <<>>)
             target == TokenOr(parts, 2, <<"/">>)
             version == TokenOr(parts, 3, <<>>)
         IN  IF version # Http11 /\ version # Http10
                 THEN [result |-> None, checked |-> <<>>]
             ELSE IF method = Get
                 THEN LET path == TrimStartMatches(target, "/")
                      IN  IF HasTraversal(path)
                              THEN [result |-> None, checked |-> <<>>]
                          ELSE ResolveStaticPath(path, f)
             ELSE [result |-> None, checked |-> <<>>]

\* a variant that tests the method before the version
ParseLogMethodFirst(request) ==
    IF request = <<>> THEN <<>>
    ELSE LET parts == request[1]
             method == TokenOr(parts, 1, <<>>)
             target == TokenOr(parts, 2, <<"/">>)
             version == TokenOr(parts, 3, <<>>)
         IN  IF method # Get THEN <<"Unsupported HTTP method">>
             ELSE IF version # Http11 /\ version # Http10
                 THEN <<"Unsupported HTTP version">>
             ELSE IF HasTraversal(TrimStartMatches(target, "/"))
                 THEN <<"Path traversal attempt">>
             ELSE <<>>

\* what parse_request prints with eprintln, in the order of its tests
ParseLog(request) ==
    IF request = <<>> THEN <<>>
    ELSE LET parts == request[1]
             method == TokenOr(parts, 1, <<>>)
             target == TokenOr(parts, 2, <<"/">>)
             version == TokenOr(parts, 3, <<>>)
         IN  IF version # Http11 /\ version # Http10
                 THEN <<"Unsupported HTTP version">>
             ELSE IF method = Get
                 THEN IF HasTraversal(TrimStartMatches(target, "/"))
                          THEN <<"Path traversal attempt">>
                      ELSE <<>>
             ELSE <<"Unsupported HTTP method">>

(***************************************************************************)
(* lib.rs: guess_mime_type and generate_response                           *)
(***************************************************************************)
OctetStream == <<"a", "p", "p", "l", "i", "c", "a", "t", "i", "o", "n", "/", "o", "c", "t", "e", "t", "-", "s", "t", "r", "e", "a", "m">>

\* the match arms: <<extension, MIME type>>
MimeTable ==
    {  <<<<"h", "t", "m", "l">>,
         <<"t", "e", "x", "t", "/", "h", "t", "m", "l">>>>,
       <<<<"h", "t", "m">>,
         <<"t", "e", "x", "t", "/", "h", "t", "m", "l">>>>,
       <<<<"c", "s", "s">>,
         <<"t", "e", "x", "t", "/", "c", "s", "s">>>>,
       <<<<"j", "s">>,
         <<"a", "p", "p", "l", "i", "c", "a", "t", "i", "o", "n", "/", "j", "a", "v", "a", "s", "c", "r", "i", "p", "t">>>>,
       <<<<"j", "s", "o", "n">>,
         <<"a", "p", "p", "l", "i", "c", "a", "t", "i", "o", "n", "/", "j", "s", "o", "n">>>>,
       <<<<"p", "n", "g">>,
         <<"i", "m", "a", "g", "e", "/", "p", "n", "g">>>>,
       <<<<"j", "p", "g">>,
         <<"i", "m", "a", "g", "e", "/", "j", "p", "e", "g">>>>,
       <<<<"j", "p", "e", "g">>,
         <<"i", "m", "a", "g", "e", "/", "j", "p", "e", "g">>>>,
       <<<<"g", "i", "f">>,
         <<"i", "m", "a", "g", "e", "/", "g", "i", "f">>>>,
       <<<<"s", "v", "g">>,
         <<"i", "m", "a", "g", "e", "/", "s", "v", "g", "+", "x", "m", "l">>>>,
       <<<<"i", "c", "o">>,
         <<"i", "m", "a", "g", "e", "/", "x", "-", "i", "c", "o", "n">>>>,
       <<<<"t", "x", "t">>,
         <<"t", "e", "x", "t", "/", "p", "l", "a", "i", "n">>>>,
       <<<<"w", "a", "s", "m">>,
         <<"a", "p", "p", "l", "i", "c", "a", "t", "i", "o", "n", "/", "w", "a", "s", "m">>>>,
       <<<<"w", "o", "f", "f">>,
         <<"f", "o", "n", "t", "/", "w", "o", "f", "f">>>>,
       <<<<"w", "o", "f", "f", "2">>,
         <<"f", "o", "n", "t", "/", "w", "o", "f", "f", "2">>>>,
       <<<<"t", "t", "f">>,
         <<"f", "o", "n", "t", "/", "t", "t", "f">>>>,
       <<<<"o", "t", "f">>,
         <<"f", "o", "n", "t", "/", "o", "t", "f">>>>,
       <<<<"m", "p", "4">>,
         <<"v", "i", "d", "e", "o", "/", "m", "p", "4">>>>,
       <<<<"w", "e", "b", "m">>,
         <<"v", "i", "d", "e", "o", "/", "w", "e", "b", "m">>>>,
       <<<<"o", "g", "g">>,
         <<"a", "u", "d", "i", "o", "/", "o", "g", "g">>>>,
       <<<<"m", "p", "3">>,
         <<"a", "u", "d", "i", "o", "/", "m", "p", "e", "g">>>>}

\* a variant that takes what follows the first '.' of the file name
GuessMimeTypeFirstDot(path) ==
    LET fname == FileName(path)
        name == IF IsSome(fname) THEN Unwrap(fname) ELSE <<>>
        dots == {i \in 2..Len(name) : name[i] = "."}
        first == CHOOSE i \in dots : \A j \in dots : i <= j
        arms == {a \in MimeTable :
                    dots # {} /\ a[1] = SubSeq(name, first + 1, Len(name))}
    IN  IF arms = {} THEN OctetStream ELSE (CHOOSE a \in arms : TRUE)[2]

GuessMimeType(path) ==
    LET ext == Extension(path)
        arms == {a \in MimeTable : IsSome(ext) /\ a[1] = Unwrap(ext)}
    IN  IF arms = {} THEN OctetStream ELSE (CHOOSE a \in arms : TRUE)[2]

Digits == <<"0", "1", "2", "3", "4", "5", "6", "7", "8", "9">>

\* format!("{}", n) of an unsigned number
RECURSIVE ToDecimal(_)
ToDecimal(n) ==
    IF n < 10 THEN <<Digits[n + 1]>>
    ELSE Append(ToDecimal(n \div 10), Digits[(n % 10) + 1])

StatusOk == <<"H", "T", "T", "P", "/", "1", ".", "1", " ", "2", "0", "0", " ", "O", "K", "\r", "\n">>
StatusNotFound == <<"H", "T", "T", "P", "/", "1", ".", "1", " ", "4", "0", "4", " ", "N", "o", "t", " ", "F", "o", "u", "n", "d", "\r", "\n">>
ContentLengthName == <<"C", "o", "n", "t", "e", "n", "t", "-", "L", "e", "n", "g", "t", "h", ":", " ">>
ContentTypeName == <<"C", "o", "n", "t", "e", "n", "t", "-", "T", "y", "p", "e", ":", " ">>
CrLf == <<"\r", "\n">>
TextHtml == <<"t", "e", "x", "t", "/", "h", "t", "m", "l">>
NotFoundBody == <<"<", "h", "1", ">", "4", "0", "4", " ", "N", "o", "t", " ", "F", "o", "u", "n", "d", "<", "/", "h", "1", ">">>

\* format!("Content-Length: {}\r\nContent-Type: {}\r\n\r\n", len, mime)
HeaderBlock(len, mime) ==
    ContentLengthName \o ToDecimal(len) \o CrLf \o ContentTypeName \o mime \o CrLf \o CrLf

\* a variant that answers 500 when the read fails
GenerateResponseServerError(full_path, f, d) ==
    IF ReadOk(f, full_path)
        THEN [status |-> StatusOk,
              headers |-> HeaderBlock(Len(d), GuessMimeType(full_path)),
              body |-> d]
    ELSE [status |-> <<"H", "T", "T", "P", "/", "1", ".", "1", " ", "5", "0", "0", " ",
                       "I", "n", "t", "e", "r", "n", "a", "l", " ", "S", "e", "r",
                       "v", "e", "r", " ", "E", "r", "r", "o", "r", "\r", "\n">>,
          headers |-> HeaderBlock(Len(NotFoundBody), TextHtml),
          body |-> NotFoundBody]

\* a variant that answers 200 with no body when the read fails
GenerateResponseEmptyOnError(full_path, f, d) ==
    IF ReadOk(f, full_path)
        THEN [status |-> StatusOk,
              headers |-> HeaderBlock(Len(d), GuessMimeType(full_path)),
              body |-> d]
    ELSE [status |-> StatusOk,
          headers |-> HeaderBlock(0, GuessMimeType(full_path)),
          body |-> <<>>]

GenerateResponse(full_path, f, d) ==
    IF ReadOk(f, full_path)
        THEN [status |-> StatusOk,
              headers |-> HeaderBlock(Len(d), GuessMimeType(full_path)),
              body |-> d]
    ELSE [status |-> StatusNotFound,
          headers |-> HeaderBlock(Len(NotFoundBody), TextHtml),
          body |-> NotFoundBody]

(***************************************************************************)
(* Bytes and UTF-8. A String is a sequence of chars, a char the sequence   *)
(* of the bytes that encode it.                                            *)
(***************************************************************************)
Lead2 == {"xC3"}
Continuation == {"xA9"}
Invalid == {"xFF"}
IsAscii(b) == b \notin (Lead2 \cup Continuation \cup Invalid)

\* String::from_utf8 as fs::read_to_string applies it: the chars, or None
\* when the bytes are not valid UTF-8
RECURSIVE Utf8Decode(_)
Utf8Decode(bytes) ==
    IF bytes = <<>> THEN Some(<<>>)
    ELSE IF IsAscii(Head(bytes))
        THEN LET rest == Utf8Decode(Tail(bytes))
             IN  IF IsSome(rest) THEN Some(<<<<Head(bytes)>>>> \o Unwrap(rest)) ELSE None
    ELSE IF Head(bytes) \in Lead2 /\ Len(bytes) >= 2 /\ bytes[2] \in Continuation
        THEN LET rest == Utf8Decode(SubSeq(bytes, 3, Len(bytes)))
             IN  IF IsSome(rest) THEN Some(<<<<bytes[1], bytes[2]>>>> \o Unwrap(rest)) ELSE None
    ELSE None

\* str::as_bytes
RECURSIVE AsBytes(_)
AsBytes(str) == IF str = <<>> THEN <<>> ELSE Head(str) \o AsBytes(Tail(str))

\* str::len: the length in bytes
StrLen(str) == Len(AsBytes(str))

\* a literal of ASCII characters as a String
Literal(ascii) == [i \in 1..Len(ascii) |-> <<ascii[i]>>]

\* the file contents the model draws from
Contents == {<<>>, <<"h", "xC3", "xA9">>, <<"h", "xFF">>}

(***************************************************************************)
(* main.rs: parse_request and generate_response of the server binary      *)
(***************************************************************************)
MainParseRequest(request) ==
    IF request = <<>> THEN None
    ELSE LET parts == request[1]
             method == TokenOr(parts, 1, <<>>)
             target == TokenOr(parts, 2, <<"/">>)
             version == TokenOr(parts, 3, <<>>)
         IN  IF version # Http11 /\ version # Http10 THEN None
             ELSE IF method = Get
                 THEN LET path == TrimStartMatches(target, "/")
                      IN  IF path = <<>> THEN Some(Static \o <<"/">> \o IndexHtml)
                          ELSE Some(Static \o <<"/">> \o path)
             ELSE None

\* a variant whose Content-Length counts chars (chars().count()), not bytes
MainGenerateResponseCharCount(full_path, f, d) ==
    LET contents == IF ReadOk(f, full_path) THEN Utf8Decode(d) ELSE None
    IN  IF IsSome(contents)
            THEN Literal(StatusOk)
                 \o Literal(HeaderBlock(Len(Unwrap(contents)), TextHtml))
                 \o Unwrap(contents)
        ELSE Literal(StatusNotFound)
             \o Literal(HeaderBlock(Len(NotFoundBody), TextHtml))
             \o Literal(NotFoundBody)

\* what parse_request prints before it returns None
MainParseLog(request) ==
    IF request = <<>> THEN <<>>
    ELSE LET parts == request[1]
             method == TokenOr(parts, 1, <<>>)
             version == TokenOr(parts, 3, <<>>)
         IN  IF version # Http11 /\ version # Http10 THEN <<"Unsupported HTTP version">>
             ELSE IF method = Get THEN <<>>
             ELSE <<"Unsupported HTTP method">>

\* the response as one String
MainGenerateResponse(full_path, f, d) ==
    LET contents == IF ReadOk(f, full_path) THEN Utf8Decode(d) ELSE None
    IN  IF IsSome(contents)
            THEN Literal(StatusOk)
                 \o Literal(HeaderBlock(StrLen(Unwrap(contents)), TextHtml))
                 \o Unwrap(contents)
        ELSE Literal(StatusNotFound)
             \o Literal(HeaderBlock(Len(NotFoundBody), TextHtml))
             \o Literal(NotFoundBody)

(***************************************************************************)
(* Inputs                                                                  *)
(***************************************************************************)
\* a token of split_whitespace is never empty
Targets == StringsUpTo(MaxLen) \ {<<>>}

\* well-formed request lines without headers
PlainRequests == {<<<<Get, t, v>>>> : t \in Targets, v \in {Http11, Http10}}

\* the same with a Connection: close header
CloseRequests == {<<<<Get, t, Http11>>, <<ConnectionHdr, Close>>>> : t \in Targets}

\* requests the parser rejects: no line, missing tokens, another method,
\* another version
BadRequests ==
    {<<>>, <<<<>>>>, <<<<Get>>>>, <<<<Get, <<"/">>>>>>,
     <<<<Post, <<"/">>, Http11>>>>, <<<<Get, <<"/">>, Http2>>>>}

LibRequests == PlainRequests \cup BadRequests

\* a read of n > 0 bytes holds at least one line
Requests == PlainRequests \cup CloseRequests \cup (BadRequests \ {<<>>})

NoResponse == [status |-> <<>>, headers |-> <<>>, body |-> <<>>]

\* main.rs parse_request not yet applied
NotParsed == [done |-> FALSE, result |-> None, log |-> <<>>]

\* pc: "pending" (not yet accepted), "reading", "writing", "closed" (the task
\* ended and dropped the socket); log: what the task printed with eprintln
\* reads: the results of the socket.read calls, in order
FreshConn == [pc |-> "pending", request |-> <<>>, path |-> None,
              response |-> <<>>, written |-> <<>>, log |-> <<>>, reads |-> <<>>]

(***************************************************************************)
(* lib.rs pipeline: parse_request, then generate_response on the path it   *)
(* returned                                                                *)
(***************************************************************************)
LibInit ==
    /\ fs \in FileSystems
    /\ data \in Contents
    /\ lreq \in LibRequests
    /\ lpc = "request"
    /\ lpath = None
    /\ lchecked = <<>>
    /\ lresp = NoResponse
    /\ mresp = <<>>
    /\ conns = [c \in {} |-> FreshConn]
    /\ llog = <<>>
    /\ lsent = <<>>
    /\ lmime = <<>>
    /\ mparse = NotParsed

LibParseRequest ==
    /\ lpc = "request"
    /\ LET r == ParseRequest(lreq, fs)
       IN  /\ lpath' = r.result
           /\ lchecked' = r.checked
           /\ lpc' = IF IsSome(r.result) THEN "parsed" ELSE "rejected"
    /\ llog' = ParseLog(lreq)
    /\ UNCHANGED <<fs, data, lreq, lresp, mresp, conns, lsent, lmime, mparse>>

LibGenerateResponse ==
    /\ lpc = "parsed"
    /\ lresp' = GenerateResponse(Unwrap(lpath), fs, data)
    /\ lpc' = "built"
    /\ UNCHANGED <<fs, data, lreq, lpath, lchecked, mresp, conns, llog, lsent, lmime, mparse>>

LibNext == LibParseRequest \/ LibGenerateResponse

LibSpec == LibInit /\ [][LibNext]_vars

(***************************************************************************)
(* main.rs: the accept loop and the task spawned for each connection       *)
(***************************************************************************)
ConnIds == {"c1"}

Init ==
    /\ fs \in ServerFileSystems
    /\ data \in Contents
    /\ lreq = <<>>
    /\ lpc = "unused"
    /\ lpath = None
    /\ lchecked = <<>>
    /\ lresp = NoResponse
    /\ mresp = <<>>
    /\ conns = [c \in ConnIds |-> FreshConn]
    /\ llog = <<>>
    /\ lsent = <<>>
    /\ lmime = <<>>
    /\ mparse = NotParsed

\* listener.accept() returns the connection and its task is spawned
Accept(c) ==
    /\ conns[c].pc = "pending"
    /\ conns' = [conns EXCEPT ![c].pc = "reading"]
    /\ UNCHANGED <<fs, data, lreq, lpc, lpath, lchecked, lresp, mresp, llog, lsent, lmime, mparse>>

\* a variant without the n == 0 arm: the empty input goes to parse_request,
\* which rejects it
ReadZeroParsed(c) ==
    /\ conns[c].pc = "reading"
    /\ conns' = [conns EXCEPT ![c].pc = "closed",
                              ![c].reads = Append(conns[c].reads, "zero"),
                              ![c].log = <<"Invalid request">>]
    /\ UNCHANGED <<fs, data, lreq, lpc, lpath, lchecked, lresp, mresp, llog, lsent, lmime, mparse>>

\* socket.read returns Ok(0): the peer closed, the task returns
ReadZero(c) ==
    /\ conns[c].pc = "reading"
    /\ conns' = [conns EXCEPT ![c].pc = "closed",
                              ![c].reads = Append(conns[c].reads, "zero")]
    /\ UNCHANGED <<fs, data, lreq, lpc, lpath, lchecked, lresp, mresp, llog, lsent, lmime, mparse>>

\* a variant in which a read error ends every task
ReadErrorEndsAll(c) ==
    /\ conns[c].pc = "reading"
    /\ conns' = [d \in DOMAIN conns |->
                    [conns[d] EXCEPT !.pc = "closed",
                                     !.reads = IF d = c THEN Append(@, "error") ELSE @,
                                     !.log = IF d = c THEN <<"Failed to read from socket">>
                                             ELSE @]]
    /\ UNCHANGED <<fs, data, lreq, lpc, lpath, lchecked, lresp, mresp, llog, lsent, lmime, mparse>>

\* socket.read returns Err: logged, the task ends
ReadError(c) ==
    /\ conns[c].pc = "reading"
    /\ conns' = [conns EXCEPT ![c].pc = "closed",
                              ![c].reads = Append(conns[c].reads, "error"),
                              ![c].log = <<"Failed to read from socket">>]
    /\ UNCHANGED <<fs, data, lreq, lpc, lpath, lchecked, lresp, mresp, llog, lsent, lmime, mparse>>

\* a variant that answers a rejected request with the 404 response
ReadRequestAnswerRejected(c, request) ==
    /\ conns[c].pc = "reading"
    /\ LET parsed == MainParseRequest(request)
       IN  conns' = [conns EXCEPT
                ![c].request = request,
                ![c].reads = Append(conns[c].reads, "data"),
                ![c].path = parsed,
                ![c].response = MainGenerateResponse(
                                    IF IsSome(parsed) THEN Unwrap(parsed) ELSE <<>>,
                                    fs, data),
                ![c].log = IF IsSome(parsed) THEN <<>>
                           ELSE Append(MainParseLog(request), "Invalid request"),
                ![c].pc = "writing"]
    /\ UNCHANGED <<fs, data, lreq, lpc, lpath, lchecked, lresp, mresp, llog, lsent, lmime, mparse>>

\* socket.read returns Ok(n), n > 0: the request is parsed; an accepted one
\* is answered (the response is built and its write begins), a rejected one
\* is logged and the task ends
ReadRequest(c, request) ==
    /\ conns[c].pc = "reading"
    /\ LET parsed == MainParseRequest(request)
       IN  conns' = [conns EXCEPT
                ![c].request = request,
                ![c].reads = Append(conns[c].reads, "data"),
                ![c].path = parsed,
                ![c].response = IF IsSome(parsed)
                                    THEN MainGenerateResponse(Unwrap(parsed), fs, data)
                                ELSE <<>>,
                ![c].log = IF IsSome(parsed) THEN <<>>
                           ELSE Append(MainParseLog(request), "Invalid request"),
                ![c].pc = IF IsSome(parsed) THEN "writing" ELSE "closed"]
    /\ UNCHANGED <<fs, data, lreq, lpc, lpath, lchecked, lresp, mresp, llog, lsent, lmime, mparse>>

\* socket.write_all returns Ok: every byte of the response was written; the
\* task ends and the socket is dropped
WriteOk(c) ==
    /\ conns[c].pc = "writing"
    /\ conns' = [conns EXCEPT ![c].written = AsBytes(conns[c].response),
                              ![c].pc = "closed"]
    /\ UNCHANGED <<fs, data, lreq, lpc, lpath, lchecked, lresp, mresp, llog, lsent, lmime, mparse>>

\* socket.write_all returns Err after n bytes went out: logged, the task ends
WriteError(c, n) ==
    /\ conns[c].pc = "writing"
    /\ n < Len(AsBytes(conns[c].response))
    /\ conns' = [conns EXCEPT ![c].written = SubSeq(AsBytes(conns[c].response), 1, n),
                              ![c].log = <<"Failed to write to socket">>,
                              ![c].pc = "closed"]
    /\ UNCHANGED <<fs, data, lreq, lpc, lpath, lchecked, lresp, mresp, llog, lsent, lmime, mparse>>

Next ==
    \/ \E c \in DOMAIN conns : Accept(c)
    \/ \E c \in DOMAIN conns : ReadZero(c)
    \/ \E c \in DOMAIN conns : ReadError(c)
    \/ \E c \in DOMAIN conns : \E request \in Requests : ReadRequest(c, request)
    \/ \E c \in DOMAIN conns : WriteOk(c)
    \/ \E c \in DOMAIN conns : \E n \in {0, Len(StatusOk)} : WriteError(c, n)

Spec == Init /\ [][Next]_vars

(***************************************************************************)
(* main.rs with two connections, whose tasks run interleaved               *)
(***************************************************************************)
ConcIds == {"c1", "c2"}

ConcRequests ==
    {<<<<Get, <<"/", "a">>, Http11>>>>,
     <<<<Get, <<"/", "a", ".", "a">>, Http10>>>>,
     <<<<Post, <<"/">>, Http11>>>>}

ConcInit ==
    /\ fs \in ServerFileSystems
    /\ data \in Contents
    /\ lreq = <<>>
    /\ lpc = "unused"
    /\ lpath = None
    /\ lchecked = <<>>
    /\ lresp = NoResponse
    /\ mresp = <<>>
    /\ conns = [c \in ConcIds |-> FreshConn]
    /\ llog = <<>>
    /\ lsent = <<>>
    /\ lmime = <<>>
    /\ mparse = NotParsed

ConcNext ==
    \/ \E c \in DOMAIN conns : Accept(c)
    \/ \E c \in DOMAIN conns : ReadZero(c)
    \/ \E c \in DOMAIN conns : ReadError(c)
    \/ \E c \in DOMAIN conns : \E request \in ConcRequests : ReadRequest(c, request)
    \/ \E c \in DOMAIN conns : WriteOk(c)
    \/ \E c \in DOMAIN conns : \E n \in {0, Len(StatusOk)} : WriteError(c, n)

ConcSpec == ConcInit /\ [][ConcNext]_vars

\* the steps of the task of connection c
ConnStep(c) ==
    \/ Accept(c)
    \/ ReadZero(c)
    \/ ReadError(c)
    \/ \E request \in ConcRequests : ReadRequest(c, request)
    \/ WriteOk(c)
    \/ \E n \in {0, Len(StatusOk)} : WriteError(c, n)

\* the runtime runs every spawned task, and every accept, read and
\* write_all it awaits completes, with a result or with an error: weak
\* fairness of ConnStep(c), which is enabled exactly while the task of c
\* has not ended
FairConcSpec ==
    ConcSpec /\ \A c \in ConcIds :
                   []<>(conns[c].pc = "closed") \/ []<><<ConnStep(c)>>_vars

(***************************************************************************)
(* The two response builders applied to one path: generate_response of     *)
(* lib.rs and generate_response of main.rs                                 *)
(***************************************************************************)
\* the paths a caller hands to generate_response: static/<target>, and the
\* candidates of the resolver that are nodes of the file system
BuilderPaths ==
    {Static \o <<"/">> \o t : t \in Targets}
    \cup {Static \o <<"/">> \o IndexHtml,
          Static \o <<"/">> \o NameAHtml,
          Static \o <<"/">> \o NameA \o <<"/">> \o IndexHtml,
          Static \o <<"/">> \o NameADotA \o <<"/">> \o IndexHtml}

BuilderInit ==
    /\ fs \in FileSystems
    /\ data \in Contents
    /\ lreq = <<>>
    /\ lpc = "parsed"
    /\ lpath \in {Some(p) : p \in BuilderPaths}
    /\ lchecked = <<>>
    /\ lresp = NoResponse
    /\ mresp = <<>>
    /\ conns = [c \in {} |-> FreshConn]
    /\ llog = <<>>
    /\ lsent = <<>>
    /\ lmime = <<>>
    /\ mparse = NotParsed

MainGenerate ==
    /\ mresp = <<>>
    /\ mresp' = MainGenerateResponse(Unwrap(lpath), fs, data)
    /\ UNCHANGED <<fs, data, lreq, lpc, lpath, lchecked, lresp, conns, llog, lsent, lmime, mparse>>

BuilderNext == LibGenerateResponse \/ MainGenerate

BuilderSpec == BuilderInit /\ [][BuilderNext]_vars

(***************************************************************************)
(* lib.rs: guess_mime_type applied to one path                             *)
(***************************************************************************)
Style == <<"s", "t", "y", "l", "e">>
Photo == <<"p", "h", "o", "t", "o">>
ArchiveTar == <<"a", "r", "c", "h", "i", "v", "e", ".", "t", "a", "r">>
StyleCss == <<"s", "t", "y", "l", "e", ".", "c", "s", "s">>
CssDirB == <<"a", ".", "c", "s", "s", "/", "b">>
DotCss == <<".", "c", "s", "s">>

\* names to which an extension is appended
MimeStems == {Style, Photo, ArchiveTar, StyleCss, CssDirB}

\* the extensions of the match arms and some that no arm has
MimeExtensions ==
    {a[1] : a \in MimeTable}
        \cup {<<"g", "z">>, <<"H", "T", "M", "L">>, <<"c", "s">>, <<>>}

\* paths whose file name has no extension
MimeBarePaths == {Style, Photo, CssDirB, DotCss, Static \o <<"/">> \o DotCss}

MimePaths ==
    {stem \o <<".">> \o e : stem \in MimeStems, e \in MimeExtensions}
        \cup MimeBarePaths

\* a served tree with nothing in it
EmptyRoot ==
    [n \in NodeNames |->
        IF n = <<Static>> THEN "dir" ELSE IF n = NodeOutside THEN "file" ELSE "none"]

MimeInit ==
    /\ fs = EmptyRoot
    /\ data = <<>>
    /\ lreq = <<>>
    /\ lpc = "path"
    /\ lpath \in {Some(p) : p \in MimePaths}
    /\ lchecked = <<>>
    /\ lresp = NoResponse
    /\ mresp = <<>>
    /\ conns = [c \in {} |-> FreshConn]
    /\ llog = <<>>
    /\ lsent = <<>>
    /\ lmime = <<>>
    /\ mparse = NotParsed

LibGuessMimeType ==
    /\ lpc = "path"
    /\ lpc' = "classified"
    /\ lmime' = GuessMimeType(Unwrap(lpath))
    /\ UNCHANGED <<fs, data, lreq, lpath, lchecked, lresp, mresp, conns,
                   llog, lsent, mparse>>

MimeNext == LibGuessMimeType

MimeSpec == MimeInit /\ [][MimeNext]_vars

(***************************************************************************)
(* The two request parsers applied to one request: parse_request of lib.rs *)
(* and parse_request of main.rs                                            *)
(***************************************************************************)
GetLower == <<"g", "e", "t">>
HttpLower == <<"h", "t", "t", "p", "/", "1", ".", "1">>
Http11x == <<"H", "T", "T", "P", "/", "1", ".", "1", "x">>

ParserMethods == {Get, Post, GetLower}
ParserTargets == {<<"/">>, <<"/", "a">>, <<"a", ".", "a">>}
ParserVersions == {Http11, Http10, Http2, HttpLower, Http11x}

\* first lines of one, two, three and four tokens, alone or before a header
\* line or a second request line; no line; one line without tokens
ParserRequests ==
    {<<<<m, t, v>>>> : m \in ParserMethods, t \in ParserTargets, v \in ParserVersions}
        \cup {<<<<m, t, v, Http11>>>> : m \in ParserMethods, t \in {<<"/">>}, v \in ParserVersions}
        \cup {<<<<m, <<"/">>, v>>, <<Get, <<"/">>, Http11>>>> :
                  m \in {Get, Post}, v \in {Http11, Http2}}
        \cup {<<<<m>>>> : m \in ParserMethods \cup ParserVersions}
        \cup {<<<<m, v>>>> : m \in ParserMethods, v \in ParserVersions \cup ParserTargets}
        \cup {<<>>, <<<<>>>>, <<<<>>, <<Get, <<"/">>, Http11>>>>}

ParserInit ==
    /\ fs \in ServerFileSystems
    /\ data = <<>>
    /\ lreq \in ParserRequests
    /\ lpc = "request"
    /\ lpath = None
    /\ lchecked = <<>>
    /\ lresp = NoResponse
    /\ mresp = <<>>
    /\ conns = [c \in {} |-> FreshConn]
    /\ llog = <<>>
    /\ lsent = <<>>
    /\ lmime = <<>>
    /\ mparse = NotParsed

MainParse ==
    /\ ~mparse.done
    /\ mparse' = [done |-> TRUE, result |-> MainParseRequest(lreq),
                  log |-> MainParseLog(lreq)]
    /\ UNCHANGED <<fs, data, lreq, lpc, lpath, lchecked, lresp, mresp, conns,
                   llog, lsent, lmime>>

ParserNext == LibParseRequest \/ MainParse

ParserSpec == ParserInit /\ [][ParserNext]_vars

(***************************************************************************)
(* lib.rs: send_response on the parts generate_response returned. Each     *)
(* write_all is one step; lsent records the writes attempted.              *)
(***************************************************************************)
SendPaths == {Static \o <<"/">> \o NameA, Static \o <<"/">> \o NameADotA}

SendInit ==
    /\ fs \in ServerFileSystems
    /\ data \in Contents
    /\ lreq = <<>>
    /\ lpc = "parsed"
    /\ lpath \in {Some(p) : p \in SendPaths}
    /\ lchecked = <<>>
    /\ lresp = NoResponse
    /\ mresp = <<>>
    /\ conns = [c \in {} |-> FreshConn]
    /\ llog = <<>>
    /\ lsent = <<>>
    /\ lmime = <<>>
    /\ mparse = NotParsed

\* a variant that goes on to the headers after a failed status-line write
WriteStatusGoesOn(ok) ==
    /\ lpc = "built"
    /\ lsent' = Append(lsent, [part |-> "status", bytes |-> lresp.status, ok |-> ok])
    /\ llog' = IF ok THEN llog ELSE Append(llog, "Failed to write status line")
    /\ lpc' = "status sent"
    /\ UNCHANGED <<fs, data, lreq, lpath, lchecked, lresp, mresp, conns, lmime, mparse>>

\* socket.write_all(status.as_bytes()): on Err, logged and send_response
\* returns
WriteStatus(ok) ==
    /\ lpc = "built"
    /\ lsent' = Append(lsent, [part |-> "status", bytes |-> lresp.status, ok |-> ok])
    /\ llog' = IF ok THEN llog ELSE Append(llog, "Failed to write status line")
    /\ lpc' = IF ok THEN "status sent" ELSE "returned"
    /\ UNCHANGED <<fs, data, lreq, lpath, lchecked, lresp, mresp, conns, lmime, mparse>>

\* socket.write_all(headers.as_bytes()): on Err, logged and send_response
\* returns
WriteHeaders(ok) ==
    /\ lpc = "status sent"
    /\ lsent' = Append(lsent, [part |-> "headers", bytes |-> lresp.headers, ok |-> ok])
    /\ llog' = IF ok THEN llog ELSE Append(llog, "Failed to write headers")
    /\ lpc' = IF ok THEN "headers sent" ELSE "returned"
    /\ UNCHANGED <<fs, data, lreq, lpath, lchecked, lresp, mresp, conns, lmime, mparse>>

\* socket.write_all(&body): on Err, logged; send_response ends either way
WriteBody(ok) ==
    /\ lpc = "headers sent"
    /\ lsent' = Append(lsent, [part |-> "body", bytes |-> lresp.body, ok |-> ok])
    /\ llog' = IF ok THEN llog ELSE Append(llog, "Failed to write body")
    /\ lpc' = "returned"
    /\ UNCHANGED <<fs, data, lreq, lpath, lchecked, lresp, mresp, conns, lmime, mparse>>

SendNext ==
    \/ LibGenerateResponse
    \/ \E ok \in BOOLEAN : WriteStatus(ok)
    \/ \E ok \in BOOLEAN : WriteHeaders(ok)
    \/ \E ok \in BOOLEAN : WriteBody(ok)

SendSpec == SendInit /\ [][SendNext]_vars

(***************************************************************************)
(* lib.rs pipeline with another actor on the file system: between          *)
(* resolve_static_path's is_file() and generate_response's fs::read the    *)
(* nodes of the resolved path may be removed, replaced or have their       *)
(* permissions taken away ("locked"), any number of times.                 *)
(***************************************************************************)
RaceTargets == {<<"/">>, <<"/", "a">>, <<"/", "a", "/">>, <<"/", "a", ".", "a">>}

RaceRequests == {<<<<Get, t, Http11>>>> : t \in RaceTargets}

IsPrefix(pre, s) == Len(pre) <= Len(s) /\ SubSeq(s, 1, Len(pre)) = pre

\* the names a path without ".." spells, from the working directory
SpelledNode(path) == SelectSeq(Split(path, "/"), LAMBDA piece : piece # <<>> /\ piece # Dot)

RaceInit ==
    /\ fs \in FileSystems
    /\ data \in Contents
    /\ lreq \in RaceRequests
    /\ lpc = "request"
    /\ lpath = None
    /\ lchecked = <<>>
    /\ lresp = NoResponse
    /\ mresp = <<>>
    /\ conns = [c \in {} |-> FreshConn]
    /\ llog = <<>>
    /\ lsent = <<>>
    /\ lmime = <<>>
    /\ mparse = NotParsed

\* the other actor makes node n, on the resolved path, of kind k
FsChange(n, k) ==
    /\ lpc = "parsed"
    /\ IsPrefix(n, SpelledNode(Unwrap(lpath)))
    /\ fs[n] # k
    /\ fs' = [fs EXCEPT ![n] = k]
    /\ UNCHANGED <<data, lreq, lpc, lpath, lchecked, lresp, mresp, conns,
                   llog, lsent, lmime, mparse>>

RaceNext ==
    \/ LibParseRequest
    \/ \E n \in NodeNames : \E k \in {"none", "file", "dir", "locked"} : FsChange(n, k)
    \/ LibGenerateResponse

RaceSpec == RaceInit /\ [][RaceNext]_vars

(***************************************************************************)
(* Vocabulary of the properties, stated on the text itself                 *)
(***************************************************************************)
\* the request line has method GET and a supported version
IsGetRequest(request) ==
    /\ Len(request) >= 1
    /\ Len(request[1]) >= 3
    /\ request[1][1] = Get
    /\ request[1][3] \in {Http11, Http10}

\* the target with its leading slashes removed
UrlPath(request) ==
    LET t == request[1][2]
        rest == {i \in 1..Len(t) : t[i] # "/"}
    IN  IF rest = {} THEN <<>>
        ELSE SubSeq(t, CHOOSE i \in rest : \A j \in rest : i <= j, Len(t))

\* some slash-separated segment of p is ".."
HasDotDotSegment(p) ==
    \E i \in 1..Len(p) - 1 :
        /\ p[i] = "." /\ p[i + 1] = "."
        /\ (i = 1 \/ p[i - 1] = "/")
        /\ (i + 1 = Len(p) \/ p[i + 2] = "/")

HtmlOf(p) == Static \o <<"/">> \o p \o DotHtml
IndexUnder(p) == Static \o <<"/">> \o p \o <<"/">> \o IndexHtml
BareOf(p) == Static \o <<"/">> \o p
RootIndex == Static \o <<"/">> \o IndexHtml

\* the candidates of the rule the shape of p selects
RuleCandidates(p) ==
    IF p = <<>> THEN {RootIndex}
    ELSE IF p[Len(p)] = "/" THEN {Static \o <<"/">> \o p \o IndexHtml}
    ELSE IF ~IsSome(Extension(p)) THEN {HtmlOf(p), IndexUnder(p)}
    ELSE {BareOf(p)}

\* parse_request has run on a GET request with a supported version
LibParsedGet == lpc \in {"rejected", "parsed", "built"} /\ lreq # <<>> /\ IsGetRequest(lreq)


\* first position at which sub occurs in s, 0 when it does not
IndexOfSub(s, sub) ==
    LET hits == {i \in 1..(Len(s) - Len(sub) + 1) : SubSeq(s, i, i + Len(sub) - 1) = sub}
    IN  IF hits = {} THEN 0 ELSE CHOOSE i \in hits : \A j \in hits : i <= j

\* the value of the header line that starts with name, None without one
HeaderValue(block, name) ==
    LET starts == {i \in 1..Len(block) :
                      /\ IsPrefix(name, SubSeq(block, i, Len(block)))
                      /\ (i = 1 \/ (i > 2 /\ SubSeq(block, i - 2, i - 1) = CrLf))}
        at == CHOOSE i \in starts : \A j \in starts : i <= j
        rest == SubSeq(block, at + Len(name), Len(block))
        stop == IndexOfSub(rest, CrLf)
    IN  IF starts = {} \/ stop = 0 THEN None ELSE Some(SubSeq(rest, 1, stop - 1))

\* the number a decimal numeral denotes, -1 when it is no numeral
RECURSIVE ParseDecimal(_)
ParseDecimal(ds) ==
    IF ds = <<>> THEN -1
    ELSE LET d == {k \in 0..9 : Digits[k + 1] = ds[Len(ds)]}
             v == CHOOSE k \in d : TRUE
         IN  IF d = {} THEN -1
             ELSE IF Len(ds) = 1 THEN v
             ELSE LET hi == ParseDecimal(SubSeq(ds, 1, Len(ds) - 1))
                  IN  IF hi < 0 THEN -1 ELSE 10 * hi + v

\* a header block with a Content-Type, a Content-Length of n, and a blank
\* line at its end
WellFormedHeaders(block, n) ==
    /\ IsSome(HeaderValue(block, ContentTypeName))
    /\ IsSome(HeaderValue(block, ContentLengthName))
    /\ ParseDecimal(Unwrap(HeaderValue(block, ContentLengthName))) = n
    /\ Len(block) >= 4
    /\ SubSeq(block, Len(block) - 3, Len(block)) = CrLf \o CrLf

\* a response on the wire, cut at the end of the status line and at the
\* first blank line
WireStatus(bytes) == SubSeq(bytes, 1, IndexOfSub(bytes, CrLf) + 1)
WireHeaders(bytes) ==
    SubSeq(bytes, IndexOfSub(bytes, CrLf) + 2, IndexOfSub(bytes, CrLf \o CrLf) + 3)
WireBody(bytes) == SubSeq(bytes, IndexOfSub(bytes, CrLf \o CrLf) + 4, Len(bytes))

\* the whole response went out on connection c
FullyWritten(c) ==
    /\ conns[c].response # <<>>
    /\ conns[c].written = AsBytes(conns[c].response)

(***************************************************************************)
(* Properties                                                              *)
(***************************************************************************)

\* C1: parse_request of lib.rs returns None for every GET request with a
\* supported version whose path has a ".." segment, and it examines the
\* existence of no candidate file before it does so.
C1_TraversalRejected ==
    (LibParsedGet /\ HasDotDotSegment(UrlPath(lreq)))
        => (~IsSome(lpath) /\ lpc = "rejected" /\ lchecked = <<>>)

\* C1 witness: a request for a/.. (or any other path with a ".." segment) was
\* rejected on a file system that holds static/index.html
C1_Witness ==
    /\ LibParsedGet
    /\ HasDotDotSegment(UrlPath(lreq))
    /\ Len(UrlPath(lreq)) > 2
    /\ lpc = "rejected"
    /\ fs[NodeIndex] = "file"

\* C2: the connection task of main.rs never writes a 200 OK status line for
\* a request whose path has a ".." segment.
C2_NoOkForTraversal ==
    \A c \in DOMAIN conns :
        (conns[c].request # <<>> /\ IsGetRequest(conns[c].request)
            /\ HasDotDotSegment(UrlPath(conns[c].request)))
            => ~IsPrefix(StatusOk, conns[c].written)

\* C3: after the response to GET / HTTP/1.1 went out, the task is reading
\* again when the request had no Connection header, and the connection is
\* closed when the request declared Connection: close.
C3_KeepAlive ==
    \A c \in DOMAIN conns :
        (FullyWritten(c) /\ conns[c].request[1] = <<Get, <<"/">>, Http11>>)
            => IF Len(conns[c].request) >= 2
                    /\ conns[c].request[2] = <<ConnectionHdr, Close>>
               THEN conns[c].pc = "closed"
               ELSE conns[c].pc = "reading"

\* C4: a GET request with a supported version whose path resolves to no
\* existing regular file is answered with exactly the 404 response.
C4_NotFoundResponse ==
    \A c \in DOMAIN conns :
        (/\ conns[c].request # <<>>
         /\ IsGetRequest(conns[c].request)
         /\ ~HasDotDotSegment(UrlPath(conns[c].request))
         /\ \A cand \in RuleCandidates(UrlPath(conns[c].request)) : ~IsFile(fs, cand)
         /\ conns[c].pc = "closed"
         /\ conns[c].written = AsBytes(conns[c].response))
            => conns[c].written =
                   StatusNotFound \o ContentLengthName \o <<"2", "2">> \o CrLf
                   \o ContentTypeName \o TextHtml \o CrLf \o CrLf \o NotFoundBody

\* C5: a GET request whose URL resolves to an existing regular file (here:
\* a URL with an extension, which names the file itself) is answered 200 OK
\* with a Content-Length of the file's byte length and the file's bytes as
\* the body, whatever the bytes are.
C5_RoundTrip ==
    \A c \in DOMAIN conns :
        (/\ conns[c].request # <<>>
         /\ IsGetRequest(conns[c].request)
         /\ ~HasDotDotSegment(UrlPath(conns[c].request))
         /\ BareOf(UrlPath(conns[c].request)) \in RuleCandidates(UrlPath(conns[c].request))
         /\ IsFile(fs, BareOf(UrlPath(conns[c].request)))
         /\ conns[c].pc = "closed"
         /\ conns[c].written = AsBytes(conns[c].response))
            => /\ WireStatus(conns[c].written) = StatusOk
               /\ WellFormedHeaders(WireHeaders(conns[c].written), Len(data))
               /\ WireBody(conns[c].written) = data

\* C6: every response either generate_response builds carries a header
\* block with a Content-Type, with a Content-Length equal to the byte length
\* of the body that comes with it, and with a blank line at its end.
C6_HeadersMatchBody ==
    /\ lpc = "built" => WellFormedHeaders(lresp.headers, Len(lresp.body))
    /\ mresp # <<>> =>
           WellFormedHeaders(WireHeaders(AsBytes(mresp)), Len(WireBody(AsBytes(mresp))))

\* C6 witness: both builders answered 200 for a file of three bytes that
\* are two chars
C6_Witness ==
    /\ lpc = "built"
    /\ mresp # <<>>
    /\ lresp.status = StatusOk
    /\ WireStatus(AsBytes(mresp)) = StatusOk
    /\ data = <<"h", "xC3", "xA9">>

\* C7: for a non-empty path p without trailing slash and without extension,
\* static/<p>.html is examined first and returned when it is a regular
\* file, also when static/<p>/index.html is one; otherwise
\* static/<p>/index.html is returned when it is a regular file; otherwise
\* nothing is returned. static/<p> itself is never returned.
C7_ExtensionlessOrder ==
    LET p == UrlPath(lreq) IN
    (/\ LibParsedGet
     /\ p # <<>>
     /\ p[Len(p)] # "/"
     /\ ~HasDotDotSegment(p)
     /\ ~IsSome(Extension(p)))
        => /\ lchecked # <<>> /\ lchecked[1] = HtmlOf(p)
           /\ IsFile(fs, HtmlOf(p)) => lpath = Some(HtmlOf(p))
           /\ (~IsFile(fs, HtmlOf(p)) /\ IsFile(fs, IndexUnder(p)))
                  => (lpath = Some(IndexUnder(p)) /\ lchecked = <<HtmlOf(p), IndexUnder(p)>>)
           /\ (~IsFile(fs, HtmlOf(p)) /\ ~IsFile(fs, IndexUnder(p))) => ~IsSome(lpath)
           /\ IsSome(lpath) => Unwrap(lpath) # BareOf(p)

\* C7 witness: static/a.html and static/a/index.html both exist and the
\* request for a was resolved to static/a.html
C7_Witness ==
    /\ LibParsedGet
    /\ UrlPath(lreq) = NameA
    /\ fs[NodeAHtml] = "file"
    /\ fs[NodeAIndex] = "file"
    /\ lpath = Some(HtmlOf(NameA))

\* C8: for a target of slashes only, static/index.html is the one candidate
\* examined; it is returned when it is a regular file and nothing is
\* returned otherwise.
C8_EmptyPath ==
    (LibParsedGet /\ UrlPath(lreq) = <<>>)
        => /\ lchecked = <<RootIndex>>
           /\ IsFile(fs, RootIndex) => lpath = Some(RootIndex)
           /\ ~IsFile(fs, RootIndex) => ~IsSome(lpath)

\* C8 witness: the target // was resolved to static/index.html
C8_Witness ==
    /\ LibParsedGet
    /\ lreq[1][2] = <<"/", "/">>
    /\ lpath = Some(RootIndex)

\* C9: for a path p that ends in a slash, static/<p>index.html is the one
\* candidate examined, also when the last directory of p has a dot in its
\* name; it is returned when it is a regular file and nothing is returned
\* otherwise.
C9_TrailingSlash ==
    LET p == UrlPath(lreq) IN
    (/\ LibParsedGet
     /\ p # <<>>
     /\ p[Len(p)] = "/"
     /\ ~HasDotDotSegment(p))
        => /\ lchecked = <<Static \o <<"/">> \o p \o IndexHtml>>
           /\ IsFile(fs, Static \o <<"/">> \o p \o IndexHtml)
                  => lpath = Some(Static \o <<"/">> \o p \o IndexHtml)
           /\ ~IsFile(fs, Static \o <<"/">> \o p \o IndexHtml) => ~IsSome(lpath)

\* C9 witness: the request for a.a/ was resolved to static/a.a/index.html
C9_Witness ==
    /\ LibParsedGet
    /\ UrlPath(lreq) = NameADotA \o <<"/">>
    /\ lpath = Some(Static \o <<"/">> \o NameADotA \o <<"/">> \o IndexHtml)

\* C10: a path resolve_static_path returns is a candidate of the rule the
\* shape of the input selects and is a regular file; nothing is returned
\* exactly when no candidate of that rule is a regular file.
C10_ResolvedIsRegularFile ==
    LET p == UrlPath(lreq) IN
    (LibParsedGet /\ ~HasDotDotSegment(p))
        => /\ IsSome(lpath) =>
                  (Unwrap(lpath) \in RuleCandidates(p) /\ Stat(fs, Unwrap(lpath)) = "file")
           /\ ~IsSome(lpath) <=> (\A cand \in RuleCandidates(p) : Stat(fs, cand) # "file")

\* C10 witness: static/a.a is a directory and the request for a.a was
\* resolved to nothing
C10_Witness ==
    /\ LibParsedGet
    /\ UrlPath(lreq) = NameADotA
    /\ fs[NodeADotA] = "dir"
    /\ ~IsSome(lpath)

\* the MIME type the table gives for an extension, the fallback otherwise
TableMime(e) ==
    IF \E a \in MimeTable : a[1] = e
        THEN (CHOOSE a \in MimeTable : a[1] = e)[2]
    ELSE OctetStream

TextCss == <<"t", "e", "x", "t", "/", "c", "s", "s">>
ImageJpeg == <<"i", "m", "a", "g", "e", "/", "j", "p", "e", "g">>
Jpeg == <<"j", "p", "e", "g">>
Gz == <<"g", "z">>

\* C11: the MIME classifier decides on the final extension only: a path
\* stem.e gets the table's type for e whatever dots stem has, every
\* extension outside the table and every path without an extension gets
\* application/octet-stream; style.css is text/css, photo.jpeg is image/jpeg
\* and archive.tar.gz is application/octet-stream.
C11_FinalExtensionOnly ==
    lpc = "classified" =>
        /\ \A stem \in MimeStems, e \in MimeExtensions :
              Unwrap(lpath) = stem \o <<".">> \o e => lmime = TableMime(e)
        /\ \A e \in MimeExtensions :
              (\A a \in MimeTable : a[1] # e) => TableMime(e) = OctetStream
        /\ (Unwrap(lpath) \in MimeBarePaths => lmime = OctetStream)
        /\ (Unwrap(lpath) = StyleCss => lmime = TextCss)
        /\ (Unwrap(lpath) = Photo \o <<".">> \o Jpeg => lmime = ImageJpeg)
        /\ (Unwrap(lpath) = ArchiveTar \o <<".">> \o Gz => lmime = OctetStream)

\* a path with two dots whose final extension is in the table was classified
C11_Witness ==
    /\ lpc = "classified"
    /\ lpath = Some(ArchiveTar \o <<".">> \o <<"c", "s", "s">>)
    /\ lmime = TextCss

\* C12: in every 200 OK response that went out, the Content-Type header is
\* what guess_mime_type gives for the path of the file that was read.
C12_ContentTypeFromClassifier ==
    \A c \in DOMAIN conns :
        (FullyWritten(c) /\ WireStatus(conns[c].written) = StatusOk)
            => HeaderValue(WireHeaders(conns[c].written), ContentTypeName)
                   = Some(GuessMimeType(Unwrap(conns[c].path)))

\* the first line has no third token that is exactly HTTP/1.0 or HTTP/1.1
BadVersion(request) ==
    Len(request) >= 1 /\ (Len(request[1]) < 3 \/ request[1][3] \notin {Http11, Http10})

\* the first line has no first token that is exactly GET
BadMethod(request) ==
    Len(request) >= 1 /\ (Len(request[1]) < 1 \/ request[1][1] # Get)

\* what a parser does with request: whether it returned a path, and what
\* it printed
ParserContract(request, result, log) ==
    /\ IsSome(result) => IsGetRequest(request)
    /\ (request = <<>> \/ BadVersion(request) \/ BadMethod(request)) => ~IsSome(result)
    /\ BadVersion(request) => log = <<"Unsupported HTTP version">>
    /\ (BadMethod(request) /\ ~BadVersion(request)) => log = <<"Unsupported HTTP method">>

\* C13: either parse_request returns a path only for a request whose first
\* line has GET as first token and HTTP/1.0 or HTTP/1.1 as third; empty
\* input, a first line of fewer than three tokens, another method and
\* another version get no path; the version is tested first, so a request
\* wrong in both is reported for its version. main.rs returns a path for
\* every request of that form.
C13_ParserAcceptance ==
    /\ lpc \in {"parsed", "rejected"} => ParserContract(lreq, lpath, llog)
    /\ mparse.done =>
           /\ ParserContract(lreq, mparse.result, mparse.log)
           /\ IsGetRequest(lreq) => IsSome(mparse.result)

\* a request with another method and another version was rejected by both
\* parsers, each reporting the version
C13_Witness ==
    /\ lpc = "rejected"
    /\ mparse.done
    /\ lreq = <<<<Post, <<"/">>, Http2>>>>
    /\ llog = <<"Unsupported HTTP version">>
    /\ mparse.log = <<"Unsupported HTTP version">>

\* a request was read on connection c and parse_request returned None
Rejected(c) ==
    /\ conns[c].reads = <<"data">>
    /\ ~IsSome(conns[c].path)

\* C14: when parse_request rejects the request read on a connection (too
\* few tokens, another version, another method), no response is built for
\* it, not one byte is written to the socket, "Invalid request" is logged
\* and the task has ended.
C14_RejectedGetsNothing ==
    \A c \in DOMAIN conns :
        /\ Rejected(c) =>
               /\ conns[c].response = <<>>
               /\ conns[c].written = <<>>
               /\ conns[c].pc = "closed"
               /\ conns[c].log # <<>>
               /\ conns[c].log[Len(conns[c].log)] = "Invalid request"
        /\ (conns[c].reads = <<"data">> /\ ~IsGetRequest(conns[c].request))
               => Rejected(c)

\* a POST request was read and rejected
C14_Witness ==
    \E c \in DOMAIN conns :
        /\ Rejected(c)
        /\ conns[c].request = <<<<Post, <<"/">>, Http11>>>>
        /\ conns[c].pc = "closed"

\* the parts of a response in the order of the wire
PartOrder == <<"status", "headers", "body">>

\* C15: send_response attempts the three writes in the order status line,
\* header block, body, each at most once and each with the part
\* generate_response returned; a write is attempted only when every write
\* before it succeeded, so nothing follows a failed status-line or header
\* write; a failed body write is logged and send_response has returned, as
\* it has after a successful one.
C15_SendOrder ==
    /\ Len(lsent) <= 3
    /\ \A i \in 1..Len(lsent) :
          /\ lsent[i].part = PartOrder[i]
          /\ lsent[i].bytes = lresp[PartOrder[i]]
          /\ (i < Len(lsent) => lsent[i].ok)
    /\ (lsent # <<>> /\ ~lsent[Len(lsent)].ok) =>
          /\ lpc = "returned"
          /\ llog = <<IF Len(lsent) = 1 THEN "Failed to write status line"
                      ELSE IF Len(lsent) = 2 THEN "Failed to write headers"
                      ELSE "Failed to write body">>
    /\ Len(lsent) = 3 => lpc = "returned"
    /\ (lsent # <<>> /\ \A i \in 1..Len(lsent) : lsent[i].ok) => llog = <<>>
    /\ lpc = "returned" => (Len(lsent) = 3 \/ ~lsent[Len(lsent)].ok)

\* the status line and the headers of a 200 response went out and the body
\* write failed
C15_Witness ==
    /\ lpc = "returned"
    /\ Len(lsent) = 3
    /\ lsent[1].ok /\ lsent[2].ok /\ ~lsent[3].ok
    /\ lsent[1].bytes = StatusOk
    /\ llog = <<"Failed to write body">>

\* the 404 response, the same for every path
FixedNotFound ==
    [status |-> StatusNotFound,
     headers |-> ContentLengthName \o <<"2", "2">> \o CrLf
                 \o ContentTypeName \o TextHtml \o CrLf \o CrLf,
     body |-> NotFoundBody]

\* the resolved path no longer leads to a regular file this process may read
Unreadable(f, path) ==
    \/ \E n \in NodeNames :
          /\ IsPrefix(n, SpelledNode(path))
          /\ n # SpelledNode(path)
          /\ f[n] # "dir"
    \/ KindOf(f, SpelledNode(path)) # "file"

\* C16: when the file resolve_static_path confirmed can no longer be read
\* at the time generate_response reads it (it, or a directory above it, was
\* removed, replaced or locked in between), the response built is the fixed
\* 404 response, whose Content-Length 22 is the length of its body; a 200
\* response is built only from a successful read and carries the whole
\* contents.
C16_UnreadableGivesNotFound ==
    lpc = "built" =>
        /\ Len(NotFoundBody) = 22
        /\ Unreadable(fs, Unwrap(lpath)) => lresp = FixedNotFound
        /\ lresp.status = StatusOk =>
              /\ ~Unreadable(fs, Unwrap(lpath))
              /\ lresp.body = data
              /\ WellFormedHeaders(lresp.headers, Len(data))
        /\ lresp.status \in {StatusOk, StatusNotFound}

\* resolution confirmed static/a.a, which was then locked, and the 404
\* response was built
C16_Witness ==
    /\ lpc = "built"
    /\ lchecked # <<>>
    /\ lpath = Some(Static \o <<"/">> \o NameADotA)
    /\ fs[NodeADotA] = "locked"
    /\ lresp = FixedNotFound

\* C17: a zero-byte read ends the task at once: nothing has been parsed,
\* built, logged or written on that connection; and no step ever changes a
\* closed connection, so no read and no write follows on its socket.
C17_ZeroReadCloses ==
    [][\A c \in DOMAIN conns :
          /\ (conns[c].pc = "reading" /\ conns'[c].reads = <<"zero">>) =>
                 /\ conns'[c].pc = "closed"
                 /\ conns'[c].request = <<>>
                 /\ ~IsSome(conns'[c].path)
                 /\ conns'[c].response = <<>>
                 /\ conns'[c].written = <<>>
                 /\ conns'[c].log = <<>>
          /\ conns[c].pc = "closed" => conns'[c] = conns[c]]_vars

\* a connection was closed by a zero-byte read
C17_Witness ==
    \E c \in DOMAIN conns :
        /\ conns[c].pc = "closed"
        /\ conns[c].reads = <<"zero">>
        /\ conns[c].written = <<>>

\* the task of connection c ended on a read error or a write error
Errored(c) ==
    /\ conns[c].pc = "closed"
    /\ conns[c].log \in {<<"Failed to read from socket">>, <<"Failed to write to socket">>}

C19_OnlyOkOrNotFound ==
    LET ok == <<"H", "T", "T", "P", "/", "1", ".", "1", " ", "2", "0", "0", " ", "O", "K", "\r", "\n">>
        notFound == <<"H", "T", "T", "P", "/", "1", ".", "1", " ", "4", "0", "4", " ",
                      "N", "o", "t", " ", "F", "o", "u", "n", "d", "\r", "\n">>
    IN  /\ lpc = "built" => lresp.status \in {ok, notFound}
        /\ mresp # <<>> => WireStatus(AsBytes(mresp)) \in {ok, notFound}

\* a file that is not UTF-8 was read: lib.rs answered 200 and main.rs,
\* whose read failed, 404
C19_Witness ==
    /\ lpc = "built"
    /\ mresp # <<>>
    /\ data = <<"h", "xFF">>
    /\ lresp.status = StatusOk
    /\ WireStatus(AsBytes(mresp)) = StatusNotFound

====
